---- MODULE Spec2Model ----
(***************************************************************************)
(* A model of the in-memory M-Tree of "Laboratorio 5/M-Tree": the node     *)
(* classes, mtree::add, mtree::remove and the nearest-neighbour query      *)
(* iterator, instantiated as in the driver with Data = int.                *)
(***************************************************************************)
EXTENDS Integers, Sequences, FiniteSets, TLC

\* ------------------------------------------------------------------ bounds
NumPoints == 5
MaxOps == 7
MaxQueryOps == 4
MaxTeardown == 4

\* Calls made on one cached_distance_function
MaxCalls == 3

\* ------------------------------------------------------- program constants
\* std::numeric_limits<double>::infinity(): above every distance of the model
Infinity == 1000000

\* std::numeric_limits<unsigned int>::max(), cut to 31 bits: above every number
\* of results of the model
UnsignedMax == 2147483647

\* ---------------------------------------------------------------- the data
Data == 0 .. (NumPoints - 1)

Max(a, b) == IF a >= b THEN a ELSE b

Abs(x) == IF x < 0 THEN -x ELSE x

\* The distance function the tree is instantiated with: euclidean_distance on
\* objects of one integer coordinate.
distance_function(a, b) == Abs(a - b)

MinOf(S) == CHOOSE x \in S : \A y \in S : x <= y

\* std::map / std::set primitives on functions keyed by Data
Put(f, k, v) == [x \in (DOMAIN f) \cup {k} |-> IF x = k THEN v ELSE f[x]]

Erase(f, k) == [x \in (DOMAIN f) \ {k} |-> f[x]]

\* Keys of a map in iteration (ascending) order
RECURSIVE KeySeq(_)
KeySeq(S) == IF S = {} THEN << >>
             ELSE LET m == MinOf(S) IN << m >> \o KeySeq(S \ {m})

\* minNodeCapacity, maxNodeCapacity, root: the fields of the mtree object.
\* it: the live query iterator (NoIterator when there is none).
\* indexed, last, nops, trip, yielded record the calls made so far: the objects
\* added and not yet removed, the last call and its return value, the number
\* of add/remove calls, the phase of an insert-all/remove-all round trip, and
\* the results the live iterator has produced since begin().
\* script is the run being replayed, call by call, with the pairs the promotion
\* function drew in each call; it is empty when no run is replayed.
VARIABLES minNodeCapacity, maxNodeCapacity, root, it, indexed, last, nops, trip,
          yielded, script

vars == << minNodeCapacity, maxNodeCapacity, root, it, indexed, last, nops, trip,
           yielded, script >>

\* ------------------------------------------------------------------- nodes
NULL == [kind |-> "NULL"]

IndexItem(kind, data) ==
    [kind |-> kind, data |-> data, radius |-> 0, distanceToParent |-> -1,
     children |-> << >>]

Entry(data) == IndexItem("Entry", data)

IsLeafKind(node) == node.kind \in {"RootLeafNode", "LeafNode"}

\* getMinCapacity with a root-leaf allowed to stay empty: what RoundTrip rules out
getMinCapacity_EmptyRootLeaf(node) ==
    CASE node.kind = "RootLeafNode" -> 0
      [] node.kind = "RootNode" -> 2
      [] OTHER -> minNodeCapacity

getMinCapacity(node) ==
    CASE node.kind = "RootLeafNode" -> 1
      [] node.kind = "RootNode" -> 2
      [] OTHER -> minNodeCapacity

\* updateRadius fitting the radius to the child instead of growing it
updateRadius_Fit(node, child) ==
    [node EXCEPT !.radius = child.distanceToParent + child.radius]

\* Node::updateRadius
updateRadius(node, child) ==
    [node EXCEPT !.radius = Max(@, child.distanceToParent + child.radius)]

updateMetrics(node, key, distance) ==
    LET n1 == [node EXCEPT !.children[key].distanceToParent = distance]
    IN  updateRadius(n1, n1.children[key])

newSplitNodeReplacement(node, data) ==
    IF IsLeafKind(node) THEN IndexItem("LeafNode", data)
    ELSE IndexItem("InternalNode", data)

\* ------------------------------------------------------------ split policy
\* random_promotion sampling with replacement
random_promotion_WithReplacement(S) ==
    { pr \in S \X S : /\ pr[1] <= pr[2]
                      /\ nops < Len(script) => pr \in script[nops + 1].draws }

\* random_promotion: two elements sampled without replacement, input order kept
random_promotion(S) ==
    { pr \in S \X S : /\ pr[1] < pr[2]
                      /\ nops < Len(script) => pr \in script[nops + 1].draws }

\* std::sort of the set's elements by distance to p: every order consistent
\* with the comparator
RECURSIVE SortedBy(_, _)
SortedBy(S, p) ==
    IF S = {} THEN { << >> }
    ELSE LET m == MinOf({ distance_function(x, p) : x \in S })
             heads == { x \in S : distance_function(x, p) = m }
         IN  UNION { { << x >> \o s : s \in SortedBy(S \ {x}, p) } : x \in heads }

\* the inner loops of balanced_partition without the test of the other partition
NextFree_NoTest(queue, i, other) == i

\* the inner "while(i != queue.end())" loops of balanced_partition: index of
\* the first element at or after i that is not in other, or Len+1
RECURSIVE NextFree(_, _, _)
NextFree(queue, i, other) ==
    IF i > Len(queue) THEN i
    ELSE IF queue[i] \notin other THEN i
    ELSE NextFree(queue, i + 1, other)

RECURSIVE Alternate(_, _, _, _, _, _)
Alternate(queue1, queue2, i1, i2, first, second) ==
    IF i1 > Len(queue1) /\ i2 > Len(queue2) THEN << first, second >>
    ELSE LET j1 == NextFree(queue1, i1, second)
             first1 == IF j1 <= Len(queue1) THEN first \cup {queue1[j1]} ELSE first
             n1 == IF j1 <= Len(queue1) THEN j1 + 1 ELSE j1
             j2 == NextFree(queue2, i2, first1)
             second1 == IF j2 <= Len(queue2) THEN second \cup {queue2[j2]} ELSE second
             n2 == IF j2 <= Len(queue2) THEN j2 + 1 ELSE j2
         IN  Alternate(queue1, queue2, n1, n2, first1, second1)

\* balanced_partition with the two queues taken in the other order
balanced_partition_Swapped(promoted, S) ==
    { Alternate(q2, q1, 1, 1, {}, {}) :
        q1 \in SortedBy(S, promoted[1]), q2 \in SortedBy(S, promoted[2]) }

balanced_partition(promoted, S) ==
    { Alternate(q1, q2, 1, 1, {}, {}) :
        q1 \in SortedBy(S, promoted[1]), q2 \in SortedBy(S, promoted[2]) }

\* split_function: the possible results [promoted, first, second]
split_function(S) ==
    UNION { { [promoted |-> pr, first |-> part[1], second |-> part[2]] :
                part \in balanced_partition(pr, S) } : pr \in random_promotion(S) }

\* the distance the split looks up through its cache
cached_distance_function(a, b) == distance_function(a, b)

\* std::map::insert: a key that is there keeps its value
Insert(f, k, v) == IF k \in DOMAIN f THEN f ELSE Put(f, k, v)

\* cached_distance_function::operator() keeping the pair in the order given only
CachedDistance_AsGiven(cache, data1, data2) ==
    IF << data1, data2 >> \in DOMAIN cache
    THEN [distance |-> cache[<< data1, data2 >>], cache |-> cache, evaluated |-> FALSE]
    ELSE LET distance == distance_function(data1, data2)
         IN  [distance |-> distance,
              cache |-> Insert(cache, << data1, data2 >>, distance),
              evaluated |-> TRUE]

\* cached_distance_function::operator() on the map cache: the distance it
\* returns, the map it leaves and whether it has called the wrapped function
CachedDistance(cache, data1, data2) ==
    IF << data1, data2 >> \in DOMAIN cache
    THEN [distance |-> cache[<< data1, data2 >>], cache |-> cache, evaluated |-> FALSE]
    ELSE IF << data2, data1 >> \in DOMAIN cache
    THEN [distance |-> cache[<< data2, data1 >>], cache |-> cache, evaluated |-> FALSE]
    ELSE LET distance == distance_function(data1, data2)
         IN  [distance |-> distance,
              cache |-> Insert(Insert(cache, << data1, data2 >>, distance),
                               << data2, data1 >>, distance),
              evaluated |-> TRUE]

\* ----------------------------------------------------------------- addChild
\* LeafNodeTrait::addChild
LeafAddChild(node, child, distance) ==
    updateMetrics([node EXCEPT !.children = Put(@, child.data, child)],
                  child.data, distance)

\* Every operation below that can run a split returns the SET of its possible
\* results, one per outcome of the random promotion and of the sort's ties.
RECURSIVE addChild(_, _, _), NonLeafAddChild(_, _), TransferChildren(_, _, _),
          checkMaxCapacity(_), FillNode(_, _, _, _)

\* Node::addChild, dispatched on the variant of the receiving node
addChild(node, child, distance) ==
    IF IsLeafKind(node) THEN { LeafAddChild(node, child, distance) }
    ELSE NonLeafAddChild(node, << [child |-> child, distance |-> distance] >>)

\* TransferChildren leaving the children of newChild where they are: newChild
\* is deleted with them
TransferChildren_Dropped(existingChild, from, keys) == { existingChild }

\* TransferChildren handing the grandchildren over with the distance of the new
\* child instead of their own: what CachedParentDistance rules out
TransferChildren_ChildDistance(existingChild, from, keys) ==
    IF keys = << >> THEN { existingChild }
    ELSE LET grandchild == from.children[Head(keys)]
         IN  UNION { TransferChildren(e, from, Tail(keys)) :
                       e \in addChild(existingChild, grandchild,
                                      from.distanceToParent) }

\* the loop "existingChild->addChild(grandchild, grandchild->distanceToParent)"
\* over the children of newChild, in key order
TransferChildren(existingChild, from, keys) ==
    IF keys = << >> THEN { existingChild }
    ELSE LET grandchild == from.children[Head(keys)]
         IN  UNION { TransferChildren(e, from, Tail(keys)) :
                       e \in addChild(existingChild, grandchild,
                                      grandchild.distanceToParent) }

\* NonLeafNodeTrait::addChild: the work list newChildren, served from its back
NonLeafAddChild(node, newChildren) ==
    IF newChildren = << >> THEN { node }
    ELSE LET cwd == newChildren[Len(newChildren)]
             rest == SubSeq(newChildren, 1, Len(newChildren) - 1)
             newChild == cwd.child
             key == newChild.data
         IN  IF key \notin DOMAIN node.children
             THEN NonLeafAddChild(
                      updateMetrics([node EXCEPT !.children = Put(@, key, newChild)],
                                    key, cwd.distance),
                      rest)
             ELSE UNION {
                    UNION {
                      IF r.split
                      THEN NonLeafAddChild(
                               [node EXCEPT !.children = Erase(@, key)],
                               rest \o
                               << [child |-> r.newNodes[1],
                                   distance |-> distance_function(node.data, r.newNodes[1].data)],
                                  [child |-> r.newNodes[2],
                                   distance |-> distance_function(node.data, r.newNodes[2].data)] >>)
                      ELSE NonLeafAddChild(
                               [node EXCEPT !.children[key] = r.node], rest)
                      : r \in checkMaxCapacity(existingChild) }
                    : existingChild \in TransferChildren(node.children[key], newChild,
                                                         KeySeq(DOMAIN newChild.children)) }

\* the loop of checkMaxCapacity that moves the children of one partition into
\* the new node
FillNode(newNode, old, promotedData, keys) ==
    IF keys = << >> THEN { newNode }
    ELSE LET data == Head(keys)
         IN  UNION { FillNode(n, old, promotedData, Tail(keys)) :
                       n \in addChild(newNode, old.children[data],
                                      cached_distance_function(promotedData, data)) }

\* Node::checkMaxCapacity: [split |-> FALSE, node] when the node fits, else one
\* [split |-> TRUE, newNodes] per result of the split function
checkMaxCapacity(node) ==
    IF Cardinality(DOMAIN node.children) > maxNodeCapacity
    THEN UNION {
           { [split |-> TRUE, newNodes |-> << n1, n2 >>] :
               n1 \in FillNode(newSplitNodeReplacement(node, sp.promoted[1]), node,
                               sp.promoted[1], KeySeq(sp.first)),
               n2 \in FillNode(newSplitNodeReplacement(node, sp.promoted[2]), node,
                               sp.promoted[2], KeySeq(sp.second)) }
           : sp \in split_function(DOMAIN node.children) }
    ELSE { [split |-> FALSE, node |-> node] }

\* ------------------------------------------------------------------ addData
\* LeafNodeTrait::doAddData
LeafDoAddData(node, data, distance) ==
    updateMetrics([node EXCEPT !.children = Put(@, data, Entry(data))], data, distance)

\* the candidate scan taking the nearest child, covering or not
ChooseChild_Nearest(node, keys, data, minRadiusIncreaseNeeded, nearestDistance) ==
    LET nearest == CHOOSE k \in DOMAIN node.children :
                       \A j \in DOMAIN node.children :
                           distance_function(k, data) <= distance_function(j, data)
    IN  [node |-> nearest, distance |-> distance_function(nearest, data),
         metric |-> distance_function(nearest, data)]

\* the candidate scan of NonLeafNodeTrait::doAddData, in key order
RECURSIVE ChooseChild(_, _, _, _, _)
ChooseChild(node, keys, data, minRadiusIncreaseNeeded, nearestDistance) ==
    IF keys = << >>
    THEN IF nearestDistance.node # -1 THEN nearestDistance ELSE minRadiusIncreaseNeeded
    ELSE LET child == node.children[Head(keys)]
             distance == distance_function(child.data, data)
         IN  IF distance > child.radius
             THEN ChooseChild(node, Tail(keys), data,
                      IF distance - child.radius < minRadiusIncreaseNeeded.metric
                      THEN [node |-> child.data, distance |-> distance,
                            metric |-> distance - child.radius]
                      ELSE minRadiusIncreaseNeeded,
                      nearestDistance)
             ELSE ChooseChild(node, Tail(keys), data, minRadiusIncreaseNeeded,
                      IF distance < nearestDistance.metric
                      THEN [node |-> child.data, distance |-> distance, metric |-> distance]
                      ELSE nearestDistance)

RECURSIVE addData(_, _, _), doAddData(_, _, _)

\* NonLeafNodeTrait::doAddData
NonLeafDoAddData(node, data, distance) ==
    LET none == [node |-> -1, distance |-> -1, metric |-> Infinity]
        chosen == ChooseChild(node, KeySeq(DOMAIN node.children), data, none, none)
        child == node.children[chosen.node]
    IN  UNION {
          IF r.split
          THEN UNION { addChild(n, r.newNodes[2],
                                distance_function(node.data, r.newNodes[2].data)) :
                         n \in addChild([node EXCEPT !.children = Erase(@, child.data)],
                                        r.newNodes[1],
                                        distance_function(node.data, r.newNodes[1].data)) }
          ELSE { updateRadius([node EXCEPT !.children[child.data] = r.node], r.node) }
          : r \in addData(child, data, chosen.distance) }

doAddData(node, data, distance) ==
    IF IsLeafKind(node) THEN { LeafDoAddData(node, data, distance) }
    ELSE NonLeafDoAddData(node, data, distance)

\* Node::addData
addData(node, data, distance) ==
    UNION { checkMaxCapacity(n) : n \in doAddData(node, data, distance) }

\* mtree::add giving the new root the first promoted object as routing object
add_PromotedRoot(data) ==
    IF root = NULL
    THEN { r.node : r \in addData(IndexItem("RootLeafNode", data), data, 0) }
    ELSE UNION {
           IF r.split
           THEN UNION { addChild(n, r.newNodes[2],
                                 distance_function(r.newNodes[1].data, r.newNodes[2].data)) :
                          n \in addChild(IndexItem("RootNode", r.newNodes[1].data),
                                         r.newNodes[1], 0) }
           ELSE { r.node }
           : r \in addData(root, data, distance_function(data, root.data)) }

\* mtree::add: the possible new roots
add(data) ==
    IF root = NULL
    THEN { r.node : r \in addData(IndexItem("RootLeafNode", data), data, 0) }
    ELSE UNION {
           IF r.split
           THEN UNION { addChild(n, r.newNodes[2],
                                 distance_function(root.data, r.newNodes[2].data)) :
                          n \in addChild(IndexItem("RootNode", root.data), r.newNodes[1],
                                         distance_function(root.data, r.newNodes[1].data)) }
           ELSE { r.node }
           : r \in addData(root, data, distance_function(data, root.data)) }

\* --------------------------------------------------------------- removeData
\* the sibling scan taking every sibling for a merge candidate
RECURSIVE ScanSiblings_NoDonor(_, _, _, _, _)
ScanSiblings_NoDonor(node, keys, theChild, donor, mergeCandidate) ==
    IF keys = << >> THEN [donor |-> donor, mergeCandidate |-> mergeCandidate]
    ELSE LET anotherChild == node.children[Head(keys)]
             distance == distance_function(theChild.data, anotherChild.data)
         IN  IF Head(keys) = theChild.data
             THEN ScanSiblings_NoDonor(node, Tail(keys), theChild, donor, mergeCandidate)
             ELSE IF FALSE
             THEN ScanSiblings_NoDonor(node, Tail(keys), theChild,
                      IF distance < donor.distance
                      THEN [node |-> anotherChild.data, distance |-> distance]
                      ELSE donor,
                      mergeCandidate)
             ELSE ScanSiblings_NoDonor(node, Tail(keys), theChild, donor,
                      IF distance < mergeCandidate.distance
                      THEN [node |-> anotherChild.data, distance |-> distance]
                      ELSE mergeCandidate)

\* the sibling scan of balanceChildren, in key order: the nearest sibling
\* holding more than its minimum (donor) and the nearest other (merge candidate)
RECURSIVE ScanSiblings(_, _, _, _, _)
ScanSiblings(node, keys, theChild, donor, mergeCandidate) ==
    IF keys = << >> THEN [donor |-> donor, mergeCandidate |-> mergeCandidate]
    ELSE LET anotherChild == node.children[Head(keys)]
             distance == distance_function(theChild.data, anotherChild.data)
         IN  IF Head(keys) = theChild.data
             THEN ScanSiblings(node, Tail(keys), theChild, donor, mergeCandidate)
             ELSE IF Cardinality(DOMAIN anotherChild.children) > getMinCapacity(anotherChild)
             THEN ScanSiblings(node, Tail(keys), theChild,
                      IF distance < donor.distance
                      THEN [node |-> anotherChild.data, distance |-> distance]
                      ELSE donor,
                      mergeCandidate)
             ELSE ScanSiblings(node, Tail(keys), theChild, donor,
                      IF distance < mergeCandidate.distance
                      THEN [node |-> anotherChild.data, distance |-> distance]
                      ELSE mergeCandidate)

\* the scan of the donor's children stopping at the first one
NearestGrandchild_First(donor, keys, theChild, nearest) ==
    [node |-> Head(keys), distance |-> distance_function(Head(keys), theChild.data)]

\* the scan of the donor's children for the one nearest to theChild.data
RECURSIVE NearestGrandchild(_, _, _, _)
NearestGrandchild(donor, keys, theChild, nearest) ==
    IF keys = << >> THEN nearest
    ELSE LET distance == distance_function(Head(keys), theChild.data)
         IN  NearestGrandchild(donor, Tail(keys), theChild,
                 IF distance < nearest.distance
                 THEN [node |-> Head(keys), distance |-> distance]
                 ELSE nearest)

RECURSIVE MergeInto(_, _, _)

\* MergeInto hanging theChild itself under the merge candidate: what Balance
\* rules out
MergeInto_WholeChild(candidate, theChild, keys) ==
    addChild(candidate, theChild, distance_function(theChild.data, candidate.data))

\* the merge loop: every child of theChild is added to the merge candidate
\* with its distance to the candidate's routing object
MergeInto(candidate, theChild, keys) ==
    IF keys = << >> THEN { candidate }
    ELSE LET grandchild == theChild.children[Head(keys)]
         IN  UNION { MergeInto(c, theChild, Tail(keys)) :
                       c \in addChild(candidate, grandchild,
                                      distance_function(grandchild.data, candidate.data)) }

\* balanceChildren with a donor that keeps the grandchild it gives away
balanceChildren_DonorKeeps(node, theChildKey) ==
    LET theChild == node.children[theChildKey]
        none == [node |-> -1, distance |-> Infinity]
        scan == ScanSiblings(node, KeySeq(DOMAIN node.children), theChild, none, none)
    IN  IF scan.donor.node = -1
        THEN IF scan.mergeCandidate.node = -1
             THEN { [tag |-> "nullderef"] }
             ELSE LET cKey == scan.mergeCandidate.node
                  IN  { [tag |-> "ok",
                         node |-> [node EXCEPT
                                     !.children = Erase([@ EXCEPT ![cKey] = c], theChildKey)],
                         expanded |-> cKey] :
                        c \in MergeInto(node.children[cKey], theChild,
                                        KeySeq(DOMAIN theChild.children)) }
        ELSE LET dKey == scan.donor.node
                 nearestDonor == node.children[dKey]
                 nearest == NearestGrandchild(nearestDonor,
                                KeySeq(DOMAIN nearestDonor.children), theChild, none)
                 nearestGrandchild == nearestDonor.children[nearest.node]
             IN  { [tag |-> "ok",
                    node |-> [node EXCEPT !.children[theChildKey] = t],
                    expanded |-> theChildKey] :
                   t \in addChild(theChild, nearestGrandchild, nearest.distance) }

\* NonLeafNodeTrait::balanceChildren: [tag |-> "ok", node, expanded] with the
\* key of the returned child, or "nullderef" when there is no sibling at all
\* (nearestMergeCandidate is NULL and is dereferenced)
balanceChildren(node, theChildKey) ==
    LET theChild == node.children[theChildKey]
        none == [node |-> -1, distance |-> Infinity]
        scan == ScanSiblings(node, KeySeq(DOMAIN node.children), theChild, none, none)
    IN  IF scan.donor.node = -1
        THEN IF scan.mergeCandidate.node = -1
             THEN { [tag |-> "nullderef"] }
             ELSE LET cKey == scan.mergeCandidate.node
                  IN  { [tag |-> "ok",
                         node |-> [node EXCEPT
                                     !.children = Erase([@ EXCEPT ![cKey] = c], theChildKey)],
                         expanded |-> cKey] :
                        c \in MergeInto(node.children[cKey], theChild,
                                        KeySeq(DOMAIN theChild.children)) }
        ELSE LET dKey == scan.donor.node
                 nearestDonor == node.children[dKey]
                 nearest == NearestGrandchild(nearestDonor,
                                KeySeq(DOMAIN nearestDonor.children), theChild, none)
                 nearestGrandchild == nearestDonor.children[nearest.node]
             IN  { [tag |-> "ok",
                    node |-> [node EXCEPT
                                !.children[dKey].children = Erase(@, nearest.node),
                                !.children[theChildKey] = t],
                    expanded |-> theChildKey] :
                   t \in addChild(theChild, nearestGrandchild, nearest.distance) }

RECURSIVE NodeRemoveData(_, _, _), RemoveScan(_, _, _, _)

\* doRemoveData with a leaf that does not throw DataNotFound: what
\* AbsentRemoveUnchanged rules out
doRemoveData_NoThrow(node, data, distance) ==
    IF IsLeafKind(node)
    THEN { [tag |-> "done", node |-> [node EXCEPT !.children = Erase(@, data)]] }
    ELSE RemoveScan(node, KeySeq(DOMAIN node.children), data, distance)

\* LeafNodeTrait::doRemoveData and NonLeafNodeTrait::doRemoveData: "done" with
\* the node after the removal, "notfound" for DataNotFound
doRemoveData(node, data, distance) ==
    IF IsLeafKind(node)
    THEN IF data \in DOMAIN node.children
         THEN { [tag |-> "done", node |-> [node EXCEPT !.children = Erase(@, data)]] }
         ELSE { [tag |-> "notfound"] }
    ELSE RemoveScan(node, KeySeq(DOMAIN node.children), data, distance)

\* the loop over the children of NonLeafNodeTrait::doRemoveData
RemoveScan(node, keys, data, distance) ==
    IF keys = << >> THEN { [tag |-> "notfound"] }
    ELSE LET child == node.children[Head(keys)]
             distanceToChild == distance_function(data, child.data)
         IN  IF /\ Abs(distance - child.distanceToParent) <= child.radius
                /\ distanceToChild <= child.radius
             THEN UNION {
                    CASE r.tag = "ok" ->
                           { [tag |-> "done",
                              node |-> updateRadius(
                                         [node EXCEPT !.children[child.data] = r.node],
                                         r.node)] }
                      [] r.tag = "notfound" -> RemoveScan(node, Tail(keys), data, distance)
                      [] r.tag = "under" ->
                           { IF b.tag = "ok"
                             THEN [tag |-> "done",
                                   node |-> updateRadius(b.node, b.node.children[b.expanded])]
                             ELSE [tag |-> "nullderef"] :
                             b \in balanceChildren(
                                     [node EXCEPT !.children[child.data] = r.node],
                                     child.data) }
                      [] OTHER -> { [tag |-> "nullderef"] }
                    : r \in NodeRemoveData(child, data, distanceToChild) }
             ELSE RemoveScan(node, Tail(keys), data, distance)

\* Node::removeData: "under" stands for NodeUnderCapacity
NodeRemoveData(node, data, distance) ==
    { IF r.tag = "done"
      THEN IF Cardinality(DOMAIN r.node.children) < getMinCapacity(r.node)
           THEN [tag |-> "under", node |-> r.node]
           ELSE [tag |-> "ok", node |-> r.node]
      ELSE r :
      r \in doRemoveData(node, data, distance) }

\* the loop of RootNode::removeData that re-attaches the grandchildren
RECURSIVE Reattach(_, _, _)
Reattach(newRoot, theChild, keys) ==
    IF keys = << >> THEN { newRoot }
    ELSE LET grandchild == theChild.children[Head(keys)]
         IN  UNION { Reattach(n, theChild, Tail(keys)) :
                       n \in addChild(newRoot, grandchild,
                                      distance_function(newRoot.data, grandchild.data)) }

\* the root's removeData without its catch clause
RootRemoveData_NoCatch(node, data, distance) ==
    NodeRemoveData(node, data, distance)

\* the root's removeData building the new root around the old root's routing
\* object
RootRemoveData_OldData(node, data, distance) ==
    UNION {
      CASE r.tag = "under" /\ node.kind = "RootLeafNode" ->
             { [tag |-> "replaced", newRoot |-> NULL] }
        [] r.tag = "under" /\ node.kind = "RootNode" ->
             IF DOMAIN r.node.children = {} THEN { [tag |-> "nullderef"] }
             ELSE LET theChild == r.node.children[MinOf(DOMAIN r.node.children)]
                      newRoot == IF theChild.kind = "InternalNode"
                                 THEN IndexItem("RootNode", node.data)
                                 ELSE IndexItem("RootLeafNode", node.data)
                  IN  { [tag |-> "replaced", newRoot |-> n] :
                        n \in Reattach(newRoot, theChild, KeySeq(DOMAIN theChild.children)) }
        [] OTHER -> { r }
      : r \in NodeRemoveData(node, data, distance) }

\* RootLeafNode::removeData and RootNode::removeData: "ok" with the root
\* modified in place, "replaced" for RootNodeReplacement
RootRemoveData(node, data, distance) ==
    UNION {
      CASE r.tag = "under" /\ node.kind = "RootLeafNode" ->
             { [tag |-> "replaced", newRoot |-> NULL] }
        [] r.tag = "under" /\ node.kind = "RootNode" ->
             IF DOMAIN r.node.children = {} THEN { [tag |-> "nullderef"] }
             ELSE LET theChild == r.node.children[MinOf(DOMAIN r.node.children)]
                      newRoot == IF theChild.kind = "InternalNode"
                                 THEN IndexItem("RootNode", theChild.data)
                                 ELSE IndexItem("RootLeafNode", theChild.data)
                  IN  { [tag |-> "replaced", newRoot |-> n] :
                        n \in Reattach(newRoot, theChild, KeySeq(DOMAIN theChild.children)) }
        [] OTHER -> { r }
      : r \in NodeRemoveData(node, data, distance) }

\* the state a null dereference leaves: the process is gone
SIGSEGV == [kind |-> "SIGSEGV"]

\* the state an exception nobody catches leaves: std::terminate has been called
Uncaught == [kind |-> "terminate"]

\* mtree::remove without the test of the empty root
remove_EmptyTrue(data) ==
    IF root = NULL THEN { [root |-> root, ret |-> TRUE] }
    ELSE { CASE r.tag = "replaced" -> [root |-> r.newRoot, ret |-> TRUE]
             [] r.tag = "notfound" -> [root |-> root, ret |-> FALSE]
             [] r.tag = "ok" -> [root |-> r.node, ret |-> TRUE]
             [] r.tag = "nullderef" -> [root |-> SIGSEGV, ret |-> "none"]
             [] OTHER -> [root |-> Uncaught, ret |-> "none"] :
           r \in RootRemoveData(root, data, distance_function(data, root.data)) }

\* mtree::remove: the possible [root, ret]; the two catch clauses take
\* RootNodeReplacement and DataNotFound, anything else goes through
remove(data) ==
    IF root = NULL THEN { [root |-> root, ret |-> FALSE] }
    ELSE { CASE r.tag = "replaced" -> [root |-> r.newRoot, ret |-> TRUE]
             [] r.tag = "notfound" -> [root |-> root, ret |-> FALSE]
             [] r.tag = "ok" -> [root |-> r.node, ret |-> TRUE]
             [] r.tag = "nullderef" -> [root |-> SIGSEGV, ret |-> "none"]
             [] OTHER -> [root |-> Uncaught, ret |-> "none"] :
           r \in RootRemoveData(root, data, distance_function(data, root.data)) }

\* ------------------------------------------------------------ the iterator
NoIterator == [kind |-> "NoIterator"]

ItemWithDistances(item, distance, minDistance) ==
    [item |-> item, distance |-> distance, minDistance |-> minDistance]

\* ItemWithDistances::operator<
ItemLess(a, b) == a.minDistance > b.minDistance

\* std::priority_queue is a binary heap kept in a vector (here 1-based: the
\* parent of hole is hole \div 2); which of several items with equal
\* minDistance comes on top is the library's business, and the build's library
\* does it as follows
\* the sift-up of std::push_heap
RECURSIVE PushHeap(_, _, _)
PushHeap(heap, hole, value) ==
    IF hole > 1 /\ ItemLess(heap[hole \div 2], value)
    THEN PushHeap([heap EXCEPT ![hole] = heap[hole \div 2]], hole \div 2, value)
    ELSE [heap EXCEPT ![hole] = value]

\* priority_queue::push
push(queue, value) == PushHeap(Append(queue, value), Len(queue) + 1, value)

\* the sift-down of std::pop_heap: the hole left by the top goes down to a
\* leaf along the greater children, then value is sifted up from there
RECURSIVE AdjustHeap(_, _, _, _)
AdjustHeap(heap, hole, len, value) ==
    IF hole - 1 < (len - 1) \div 2
    THEN LET right == 2 * hole + 1
             child == IF ItemLess(heap[right], heap[right - 1]) THEN right - 1 ELSE right
         IN  AdjustHeap([heap EXCEPT ![hole] = heap[child]], child, len, value)
    ELSE IF len % 2 = 0 /\ hole - 1 = (len - 2) \div 2
         THEN PushHeap([heap EXCEPT ![hole] = heap[len]], len, value)
         ELSE PushHeap(heap, hole, value)

\* priority_queue::pop
pop(queue) ==
    IF Len(queue) = 1 THEN << >>
    ELSE AdjustHeap(SubSeq(queue, 1, Len(queue) - 1), 1, Len(queue) - 1,
                    queue[Len(queue)])

\* priority_queue::top
top(queue) == queue[1]

\* the for loop of fetchNext over the children of the popped node, in key order
RECURSIVE PushChildren(_, _, _, _)
PushChildren(i, pending, node, keys) ==
    IF keys = << >> THEN i
    ELSE LET child == node.children[Head(keys)]
             childDistance == distance_function(i.query.data, child.data)
             childMinDistance == Max(childDistance - child.radius, 0)
             item == ItemWithDistances(child, childDistance, childMinDistance)
         IN  IF /\ Abs(pending.distance - child.distanceToParent) - child.radius
                      <= i.query.range
                /\ childMinDistance <= i.query.range
             THEN IF child.kind = "Entry"
                  THEN PushChildren([i EXCEPT !.nearestQueue = push(@, item)],
                                    pending, node, Tail(keys))
                  ELSE PushChildren([i EXCEPT !.pendingQueue = push(@, item)],
                                    pending, node, Tail(keys))
             ELSE PushChildren(i, pending, node, Tail(keys))

\* prepareNextNearest reporting the head of the nearest queue without taking
\* it out and without counting it
prepareNextNearest_HeadKept(i) ==
    IF i.nearestQueue # << >>
    THEN LET nextNearest == top(i.nearestQueue)
         IN  IF nextNearest.distance <= i.nextPendingMinDistance
             THEN { [i EXCEPT !.currentResultItem = [data |-> nextNearest.item.data,
                                                     distance |-> nextNearest.distance]] }
             ELSE {}
    ELSE {}

\* query::iterator::prepareNextNearest: the iterator it leaves when it returns
\* TRUE (no iterator when it returns FALSE)
prepareNextNearest(i) ==
    IF i.nearestQueue # << >>
    THEN LET nextNearest == top(i.nearestQueue)
         IN  IF nextNearest.distance <= i.nextPendingMinDistance
             THEN { [i EXCEPT !.nearestQueue = pop(@),
                              !.currentResultItem = [data |-> nextNearest.item.data,
                                                     distance |-> nextNearest.distance],
                              !.yieldedCount = @ + 1] }
             ELSE {}
    ELSE {}

\* the while loop of fetchNext
RECURSIVE FetchLoop(_)
FetchLoop(i) ==
    IF i.pendingQueue = << >> /\ i.nearestQueue = << >>
    THEN { [i EXCEPT !.isEnd = TRUE] }
    ELSE LET prepared == prepareNextNearest(i)
         IN  IF prepared # {} THEN prepared
             ELSE IF i.pendingQueue = << >> THEN {}
             ELSE LET pending == top(i.pendingQueue)
                      i1 == PushChildren([i EXCEPT !.pendingQueue = pop(@)],
                                         pending, pending.item,
                                         KeySeq(DOMAIN pending.item.children))
                  IN  FetchLoop([i1 EXCEPT !.nextPendingMinDistance =
                                   IF i1.pendingQueue = << >> THEN Infinity
                                   ELSE top(i1.pendingQueue).minDistance])

\* query::iterator::fetchNext
fetchNext(i) ==
    IF i.isEnd \/ i.yieldedCount >= i.query.limit
    THEN { [i EXCEPT !.isEnd = TRUE] }
    ELSE FetchLoop(i)

\* the constructor of the iterator with yieldedCount left as the iteration
\* before left it
iterator_CountKept(query) ==
    LET new == [kind |-> "iterator", query |-> query, isEnd |-> FALSE,
                yieldedCount |-> Len(yielded), pendingQueue |-> << >>,
                nearestQueue |-> << >>, nextPendingMinDistance |-> 0,
                currentResultItem |-> [data |-> -1, distance |-> -1]]
    IN  IF root = NULL THEN { [new EXCEPT !.isEnd = TRUE] }
        ELSE LET distance == distance_function(query.data, root.data)
                 minDistance == Max(distance - root.radius, 0)
             IN  fetchNext([new EXCEPT
                              !.pendingQueue = push(<< >>, ItemWithDistances(root, distance, minDistance)),
                              !.nextPendingMinDistance = minDistance])

\* query::iterator::iterator(const query*), the iterator begin() returns
iterator(query) ==
    LET new == [kind |-> "iterator", query |-> query, isEnd |-> FALSE,
                yieldedCount |-> 0, pendingQueue |-> << >>, nearestQueue |-> << >>,
                nextPendingMinDistance |-> 0,
                currentResultItem |-> [data |-> -1, distance |-> -1]]
    IN  IF root = NULL THEN { [new EXCEPT !.isEnd = TRUE] }
        ELSE LET distance == distance_function(query.data, root.data)
                 minDistance == Max(distance - root.radius, 0)
             IN  fetchNext([new EXCEPT
                              !.pendingQueue = push(<< >>, ItemWithDistances(root, distance, minDistance)),
                              !.nextPendingMinDistance = minDistance])

\* mtree::get_nearest
get_nearest(query_data, range, limit) ==
    [data |-> query_data, range |-> range, limit |-> limit]

\* mtree::get_nearest_by_range
get_nearest_by_range(query_data, range) == get_nearest(query_data, range, UnsignedMax)

\* mtree::get_nearest_by_limit
get_nearest_by_limit(query_data, limit) == get_nearest(query_data, Infinity, limit)

\* ------------------------------------------------------------------ actions
\* mtree::mtree with 2 * min_node_capacity for the sentinel
Constructor_DefaultTwice(min_node_capacity, max_node_capacity) ==
    /\ minNodeCapacity = min_node_capacity
    /\ maxNodeCapacity = IF max_node_capacity = -1
                         THEN 2 * min_node_capacity
                         ELSE max_node_capacity
    /\ root = NULL

\* mtree::mtree
Constructor(min_node_capacity, max_node_capacity) ==
    /\ minNodeCapacity = min_node_capacity
    /\ maxNodeCapacity = IF max_node_capacity = -1
                         THEN 2 * min_node_capacity - 1
                         ELSE max_node_capacity
    /\ root = NULL

\* the (min_node_capacity, max_node_capacity) arguments the trees are built with:
\* min_node_capacity at least 2 and max_node_capacity greater, or -1, as the
\* comment of the constructor asks
Capacities == { << 2, -1 >>, << 2, 4 >>, << 3, 4 >> }

Init ==
    /\ \E cap \in Capacities :
         /\ Constructor(cap[1], cap[2])
         /\ last = [op |-> "new", min_node_capacity |-> cap[1],
                    max_node_capacity |-> cap[2]]
    /\ script = << >>
    /\ it = NoIterator
    /\ indexed = {}
    /\ nops = 0
    /\ trip = "adding"
    /\ yielded = << >>

\* ------------------------------------------------------- reading the tree
IsNode(item) == item.kind \in {"RootLeafNode", "RootNode", "InternalNode", "LeafNode"}

RECURSIVE NodesOf(_)
\* every node of the subtree of item (entries excluded)
NodesOf(item) ==
    IF IsNode(item)
    THEN {item} \cup UNION { NodesOf(item.children[k]) : k \in DOMAIN item.children }
    ELSE {}

AllNodes == IF root \in {NULL, SIGSEGV, Uncaught} THEN {} ELSE NodesOf(root)

RECURSIVE EntriesOf(_)
\* the data of the entries stored in the leaves of the subtree of item
EntriesOf(item) ==
    IF item.kind = "Entry" THEN {item.data}
    ELSE UNION { EntriesOf(item.children[k]) : k \in DOMAIN item.children }

RECURSIVE Heights(_)
\* the set of depths at which the subtree of item ends
Heights(item) ==
    IF item.kind = "Entry" THEN {0}
    ELSE { h + 1 : h \in UNION { Heights(item.children[k]) : k \in DOMAIN item.children } }

ChildrenOf(node) == { node.children[k] : k \in DOMAIN node.children }

\* the children of node whose ball holds data
Covering(node, data) ==
    { key \in DOMAIN node.children :
        distance_function(node.children[key].data, data) <= node.children[key].radius }

\* what doAddData of the root has to choose among for the add of data:
\* "cover" when a child of the root covers data, "grow" when none does,
\* "leaf" when the root has no node below it
Descent(r, data) ==
    IF r = NULL \/ r.kind # "RootNode" THEN "leaf"
    ELSE IF Covering(r, data) # {} THEN "cover"
    ELSE "grow"

\* the leaves a remove of data leaves under their minimum capacity, each with
\* its parent: the pairs << parent, key of the leaf >>
UnderLeaves(r, data) ==
    IF r \in {NULL, SIGSEGV, Uncaught} THEN {}
    ELSE { pc \in UNION { { << parent, key >> : key \in DOMAIN parent.children } :
                            parent \in NodesOf(r) } :
             LET theChild == pc[1].children[pc[2]]
             IN  /\ theChild.kind = "LeafNode"
                 /\ data \in DOMAIN theChild.children
                 /\ Cardinality(DOMAIN theChild.children) <= getMinCapacity(theChild) }

\* the siblings of the child filed under key
Siblings(parent, key) == DOMAIN parent.children \ {key}

\* the siblings that hold more than their minimum capacity
Donors(parent, key) ==
    { s \in Siblings(parent, key) :
        Cardinality(DOMAIN parent.children[s].children)
            > getMinCapacity(parent.children[s]) }

\* what balanceChildren has to do for the remove of data: "no" when no leaf
\* with a sibling goes under its minimum, "donate" when such a leaf has a
\* sibling above its minimum, "merge" when it has none
Rebalance(r, data) ==
    LET under == { pc \in UnderLeaves(r, data) : Siblings(pc[1], pc[2]) # {} }
    IN  IF under = {} THEN "no"
        ELSE IF \E pc \in under : Donors(pc[1], pc[2]) # {} THEN "donate"
        ELSE "merge"

\* the tree is mutated only while no iterator is alive
Add(data) ==
    /\ root \notin {SIGSEGV, Uncaught}
    /\ it = NoIterator
    /\ data \notin indexed
    /\ \E r \in add(data) : root' = r
    /\ indexed' = indexed \cup {data}
    /\ last' = [op |-> "add", data |-> data, descent |-> Descent(root, data)]
    /\ nops' = nops + 1
    /\ trip' = IF trip = "adding" THEN "adding" ELSE "mixed"
    /\ UNCHANGED << minNodeCapacity, maxNodeCapacity, it, yielded, script >>

Remove(data) ==
    /\ root \notin {SIGSEGV, Uncaught}
    /\ it = NoIterator
    /\ \E r \in remove(data) :
         /\ root' = r.root
         /\ last' = [op |-> "remove", data |-> data, ret |-> r.ret,
                    was |-> data \in indexed, rebalance |-> Rebalance(root, data)]
    /\ trip' = IF trip \in {"mixed", "done"} \/ data \notin indexed THEN "mixed"
               ELSE IF indexed = {data} THEN "done"
               ELSE "removing"
    /\ indexed' = indexed \ {data}
    /\ nops' = nops + 1
    /\ UNCHANGED << minNodeCapacity, maxNodeCapacity, it, yielded, script >>

\* query::begin on the query get_nearest(query_data, range, limit)
Begin(query_data, range, limit) ==
    /\ root \notin {SIGSEGV, Uncaught}
    /\ it = NoIterator
    /\ \E i \in iterator(get_nearest(query_data, range, limit)) :
         /\ it' = i
         /\ yielded' = IF i.isEnd THEN << >> ELSE << i.currentResultItem >>
    /\ last' = [op |-> "begin"]
    /\ UNCHANGED << minNodeCapacity, maxNodeCapacity, root, indexed, nops, trip,
                    script >>

\* query::iterator::operator++
Increment ==
    /\ it # NoIterator
    /\ \E i \in fetchNext(it) :
         /\ it' = i
         /\ yielded' = IF i.isEnd THEN yielded ELSE Append(yielded, i.currentResultItem)
    /\ UNCHANGED << minNodeCapacity, maxNodeCapacity, root, indexed, last, nops, trip,
                    script >>

\* the iterator goes out of scope
Drop ==
    /\ it # NoIterator
    /\ it' = NoIterator
    /\ yielded' = << >>
    /\ UNCHANGED << minNodeCapacity, maxNodeCapacity, root, indexed, last, nops, trip,
                    script >>

\* the ranges and limits the queries are made with; UnsignedMax is the limit
\* of get_nearest_by_range, Infinity the range of get_nearest_by_limit
Ranges == { 1, Infinity }

Limits == { 0, 2, Cardinality(indexed), UnsignedMax }

Next ==
    \/ \E data \in Data : nops < MaxOps /\ Add(data)
    \/ \E data \in Data : nops < MaxOps /\ Remove(data)

Spec == Init /\ [][Next]_vars

\* queries on the trees a short workload builds
NextQuery ==
    \/ \E data \in Data : nops < MaxQueryOps /\ Add(data)
    \/ \E data \in Data : nops < MaxQueryOps /\ Remove(data)
    \/ \E q \in Data, range \in Ranges, limit \in Limits : Begin(q, range, limit)
    \/ Increment
    \/ Drop

SpecQuery == Init /\ [][NextQuery]_vars

\* query::begin called again on the query of an iterator that has reached the
\* end; last keeps what that iterator yielded
Restart ==
    /\ it # NoIterator
    /\ it.isEnd
    /\ \E i \in iterator(it.query) :
         /\ it' = i
         /\ yielded' = IF i.isEnd THEN << >> ELSE << i.currentResultItem >>
    /\ last' = [op |-> "restart", results |-> yielded]
    /\ UNCHANGED << minNodeCapacity, maxNodeCapacity, root, indexed, nops, trip,
                    script >>

\* queries made twice on the trees a short workload builds
NextRestart ==
    \/ \E data \in Data : nops < MaxQueryOps /\ Add(data)
    \/ \E data \in Data : nops < MaxQueryOps /\ Remove(data)
    \/ \E q \in Data, range \in Ranges, limit \in Limits : Begin(q, range, limit)
    \/ Increment
    \/ Restart

SpecRestart == Init /\ [][NextRestart]_vars

\* the split policy on its own: a set of objects is given to the split
\* function, or to the partition function together with a pair of objects
InitSplit ==
    /\ Constructor(2, -1)
    /\ script = << >>
    /\ it = NoIterator
    /\ indexed = {}
    /\ \E S \in SUBSET Data : last = [op |-> "set", S |-> S]
    /\ nops = 0
    /\ trip = "adding"
    /\ yielded = << >>

\* split_function::operator() on a set the promotion can sample two objects of
Split ==
    /\ last.op = "set"
    /\ Cardinality(last.S) >= 2
    /\ \E sp \in split_function(last.S) :
         last' = [op |-> "split", S |-> last.S, promoted |-> sp.promoted,
                  first |-> sp.first, second |-> sp.second]
    /\ UNCHANGED << minNodeCapacity, maxNodeCapacity, root, it, indexed, nops, trip,
                    yielded, script >>

\* balanced_partition::operator() with first_partition = S and second_partition
\* empty
Partition ==
    /\ last.op = "set"
    /\ \E promoted \in Data \X Data :
         \E part \in balanced_partition(promoted, last.S) :
           last' = [op |-> "partition", S |-> last.S, promoted |-> promoted,
                    first |-> part[1], second |-> part[2]]
    /\ UNCHANGED << minNodeCapacity, maxNodeCapacity, root, it, indexed, nops, trip,
                    yielded, script >>

NextSplit ==
    \/ Split
    \/ Partition

SpecSplit == InitSplit /\ [][NextSplit]_vars

\* one cached_distance_function on its own, as checkMaxCapacity makes one for
\* a split: its map starts empty, and it is called with pairs of objects;
\* evaluations counts, for each pair, the calls of the wrapped function with it
InitCache ==
    /\ Constructor(2, -1)
    /\ script = << >>
    /\ it = NoIterator
    /\ indexed = {}
    /\ last = [op |-> "cache", cache |-> << >>, evaluations |-> << >>]
    /\ nops = 0
    /\ trip = "adding"
    /\ yielded = << >>

Distance(data1, data2) ==
    /\ last.op \in {"cache", "distance"}
    /\ nops < MaxCalls
    /\ LET r == CachedDistance(last.cache, data1, data2)
           pair == << data1, data2 >>
       IN  last' = [op |-> "distance", data1 |-> data1, data2 |-> data2,
                    ret |-> r.distance, cache |-> r.cache, evaluated |-> r.evaluated,
                    evaluations |->
                      IF ~r.evaluated THEN last.evaluations
                      ELSE IF pair \in DOMAIN last.evaluations
                      THEN [last.evaluations EXCEPT ![pair] = @ + 1]
                      ELSE Put(last.evaluations, pair, 1)]
    /\ nops' = nops + 1
    /\ UNCHANGED << minNodeCapacity, maxNodeCapacity, root, it, indexed, trip,
                    yielded, script >>

NextCache == \E data1 \in Data, data2 \in Data : Distance(data1, data2)

SpecCache == InitCache /\ [][NextCache]_vars

\* a set of objects is inserted into an empty tree and then removed, object by
\* object, both in any order
\* the constructor checks nothing: the round trips are also made with
\* max_node_capacity = min_node_capacity
RoundTripCapacities == Capacities \cup { << 2, 2 >> }

InitRoundTrip ==
    /\ \E cap \in RoundTripCapacities :
         /\ Constructor(cap[1], cap[2])
         /\ last = [op |-> "new", min_node_capacity |-> cap[1],
                    max_node_capacity |-> cap[2]]
    /\ script = << >>
    /\ it = NoIterator
    /\ indexed = {}
    /\ nops = 0
    /\ trip = "adding"
    /\ yielded = << >>

NextRoundTrip ==
    \/ \E data \in Data : trip = "adding" /\ Add(data)
    \/ \E data \in indexed : trip \in {"adding", "removing"} /\ Remove(data)

SpecRoundTrip == InitRoundTrip /\ [][NextRoundTrip]_vars

\* a run of the tree built with capacities (2, 4): the calls made and, for each,
\* the pairs the promotion function drew while it ran
Call(op, data, draws) == [op |-> op, data |-> data, draws |-> draws]

Replay ==
    << Call("add", 10, {}), Call("add", 12, {}), Call("add", 23, {}),
       Call("add", 8, {}), Call("add", 15, {<< 10, 23 >>}), Call("add", 1, {}),
       Call("add", 0, {<< 8, 12 >>}), Call("add", 11, {}), Call("add", 17, {}),
       Call("add", 14, {<< 12, 14 >>}), Call("remove", 12, {}),
       Call("add", 7, {}), Call("add", 2, {<< 7, 8 >>}), Call("add", 6, {}),
       Call("add", 4, {<< 0, 6 >>}), Call("remove", 17, {}), Call("add", 12, {}),
       Call("add", 17, {<< 8, 12 >>}), Call("add", 24, {}), Call("add", 20, {}),
       Call("add", 9, {}), Call("add", 22, {<< 15, 24 >>}),
       Call("add", 16, {<< 2, 9 >>}), Call("remove", 23, {}), Call("add", 23, {}),
       Call("add", 18, {<< 8, 18 >>, << 12, 18 >>}), Call("add", 5, {}),
       Call("add", 3, {<< 4, 10 >>, << 4, 12 >>}) >>

\* the objects removed and the query points used once the run has been replayed
ReplayRemoved == { 1, 3, 13 }

ReplayQueries == { 0, 1 }

InitReplay ==
    /\ Constructor(2, 4)
    /\ script = Replay
    /\ it = NoIterator
    /\ indexed = {}
    /\ last = [op |-> "new", min_node_capacity |-> 2, max_node_capacity |-> 4]
    /\ nops = 0
    /\ trip = "adding"
    /\ yielded = << >>

NextReplay ==
    \/ /\ nops < Len(script)
       /\ script[nops + 1].op = "add"
       /\ Add(script[nops + 1].data)
    \/ /\ nops < Len(script)
       /\ script[nops + 1].op = "remove"
       /\ Remove(script[nops + 1].data)
    \/ \E data \in ReplayRemoved : nops = Len(script) /\ Remove(data)
    \/ \E q \in ReplayQueries, range \in Ranges, limit \in Limits :
         nops >= Len(script) /\ Begin(q, range, limit)
    \/ Increment
    \/ Drop

SpecReplay == InitReplay /\ [][NextReplay]_vars

\* both workloads: every short run of add and remove, and the replayed run
InitBoth == Init \/ InitReplay

NextBoth ==
    \/ script = << >> /\ Next
    \/ script # << >> /\ NextReplay

SpecBoth == InitBoth /\ [][NextBoth]_vars

\* the replayed run up to its 13th call, the add that splits the internal
\* root, and then the tree taken down: any MaxTeardown of its objects removed,
\* in any order
InitTeardown ==
    /\ Constructor(2, 4)
    /\ script = SubSeq(Replay, 1, 13)
    /\ it = NoIterator
    /\ indexed = {}
    /\ last = [op |-> "new", min_node_capacity |-> 2, max_node_capacity |-> 4]
    /\ nops = 0
    /\ trip = "adding"
    /\ yielded = << >>

NextTeardown ==
    \/ /\ nops < Len(script)
       /\ script[nops + 1].op = "add"
       /\ Add(script[nops + 1].data)
    \/ /\ nops < Len(script)
       /\ script[nops + 1].op = "remove"
       /\ Remove(script[nops + 1].data)
    \/ \E data \in indexed :
         /\ nops >= Len(script)
         /\ nops < Len(script) + MaxTeardown
         /\ Remove(data)

SpecTeardown == InitTeardown /\ [][NextTeardown]_vars

\* the short runs of add and remove, and the tree of three levels taken down
InitDown == Init \/ InitTeardown

NextDown ==
    \/ script = << >> /\ Next
    \/ script # << >> /\ NextTeardown

SpecDown == InitDown /\ [][NextDown]_vars

\* two runs of the tree built with the default capacities (2, 3), each with the
\* pairs the promotion function drew: the last call of the first makes an
\* internal node receive, as a donation, a leaf whose routing object it already
\* has a child for; the last call of the second merges an internal node into a
\* sibling that already has a child for the routing object of one of its leaves
DonateDuplicate ==
    << Call("add", 8, {}), Call("add", 2, {}), Call("add", 4, {}),
       Call("add", 0, {<< 4, 8 >>}), Call("add", 9, {}),
       Call("add", 1, {<< 0, 1 >>}), Call("remove", 0, {}),
       Call("add", 7, {<< 7, 8 >>}), Call("add", 5, {}), Call("add", 6, {}),
       Call("remove", 8, {}), Call("add", 3, {<< 4, 5 >>, << 7, 8 >>}),
       Call("add", 0, {}), Call("add", 10, {<< 0, 7 >>}),
       Call("remove", 2, {<< 5, 6 >>}) >>

MergeDuplicate ==
    << Call("add", 1, {}), Call("add", 3, {}), Call("add", 2, {}),
       Call("add", 8, {<< 1, 2 >>}), Call("add", 6, {}),
       Call("add", 5, {<< 6, 8 >>}), Call("add", 0, {}), Call("add", 9, {}),
       Call("add", 4, {<< 8, 9 >>, << 1, 6 >>}), Call("remove", 8, {}),
       Call("add", 10, {}), Call("add", 8, {<< 8, 9 >>}),
       Call("remove", 9, {}), Call("remove", 0, {<< 1, 10 >>}) >>

\* either run replayed, and then the tree taken down: any MaxTeardown of its
\* objects removed, in any order
InitDefault ==
    /\ Constructor(2, -1)
    /\ script \in {DonateDuplicate, MergeDuplicate}
    /\ it = NoIterator
    /\ indexed = {}
    /\ last = [op |-> "new", min_node_capacity |-> 2, max_node_capacity |-> -1]
    /\ nops = 0
    /\ trip = "adding"
    /\ yielded = << >>

SpecDefault == InitDefault /\ [][NextTeardown]_vars

\* the replayed runs with their queries, under the scheduling of the program
\* that drives them: the calls of a run are made one after the other until the
\* last, and the loop "for(i = q.begin(); i != q.end(); ++i)" calls operator++
\* for as long as the iterator is not at the end. Both are weak fairness, of
\* Scripted and of Increment, with the condition of the loop written out in
\* place of ENABLED
InitFair == InitReplay \/ InitDefault

\* the next call of a replayed run
Scripted == nops < Len(script) /\ NextReplay

Replaying == []<>(nops >= Len(script)) \/ []<><<Scripted>>_vars

Looping == []<>(it = NoIterator \/ it.isEnd) \/ []<><<Increment>>_vars

SpecFair == InitFair /\ [][NextReplay]_vars /\ Replaying /\ Looping


\* every workload: the short runs and the replayed run on the trees built with
\* max_node_capacity greater than min_node_capacity, the round trips on the
\* tree built with both equal
InitEvery ==
    \/ InitBoth
    \/ /\ InitRoundTrip
       /\ maxNodeCapacity = minNodeCapacity

NextEvery ==
    \/ maxNodeCapacity > minNodeCapacity /\ NextBoth
    \/ maxNodeCapacity = minNodeCapacity /\ NextRoundTrip

SpecEvery == InitEvery /\ [][NextEvery]_vars

\* C1: for every node N and every child c of N,
\* c.distanceToParent + c.radius <= N.radius
CoveringRadiusInv ==
    \A N \in AllNodes : \A c \in ChildrenOf(N) :
        c.distanceToParent + c.radius <= N.radius

\* C2: for every node N and every child c of N, the stored c.distanceToParent
\* is the distance between c.data and N.data
CachedParentDistance ==
    \A N \in AllNodes : \A c \in ChildrenOf(N) :
        c.distanceToParent = distance_function(c.data, N.data)

\* the replayed run, with its merges on duplicate, has been made
CachedParentDistanceWitness ==
    /\ script # << >>
    /\ nops = Len(script)
    /\ root.kind = "RootNode"
    /\ \E N \in AllNodes : N.kind = "LeafNode" /\ N.data \notin DOMAIN N.children

\* C3: every child of a node has the same height, so all leaves are at the
\* same depth
Balance ==
    \A N \in AllNodes : Cardinality(Heights(N)) <= 1

\* a remove has rebalanced a tree that is still two levels deep
BalanceWitness ==
    /\ script = << >>
    /\ last.op = "remove"
    /\ root \notin {NULL, SIGSEGV}
    /\ last.ret = TRUE
    /\ Heights(root) = {2}
    /\ Cardinality(indexed) = 4

\* C4: the root-leaf holds 1 .. max children, a root-internal node 2 .. max,
\* every other node min .. max
CapacityBounds ==
    \A N \in AllNodes :
        /\ Cardinality(DOMAIN N.children) <= maxNodeCapacity
        /\ Cardinality(DOMAIN N.children) >=
             (CASE N.kind = "RootLeafNode" -> 1
                [] N.kind = "RootNode" -> 2
                [] OTHER -> minNodeCapacity)

\* what the finished or running iteration has produced
YieldedData == { yielded[k].data : k \in DOMAIN yielded }

NonDecreasing ==
    \A k \in DOMAIN yielded :
        k < Len(yielded) => yielded[k].distance <= yielded[k + 1].distance

InRange == { x \in indexed : distance_function(it.query.data, x) <= it.query.range }

Finished == it # NoIterator /\ it.isEnd

\* C5: a finished iteration of get_nearest(q, infinity, n), n the number of
\* indexed objects, has produced exactly the indexed objects, each once, each
\* with its true distance to q, in non-decreasing order of distance
KnnComplete ==
    (Finished /\ it.query.range = Infinity /\ it.query.limit = Cardinality(indexed)) =>
        /\ Len(yielded) = Cardinality(indexed)
        /\ YieldedData = indexed
        /\ \A k \in DOMAIN yielded :
               yielded[k].distance = distance_function(it.query.data, yielded[k].data)
        /\ NonDecreasing

\* C6: an iteration produces at most limit results, each within the range,
\* in non-decreasing order of distance
QueryShape ==
    it # NoIterator =>
        /\ Len(yielded) <= it.query.limit
        /\ \A k \in DOMAIN yielded : yielded[k].distance <= it.query.range
        /\ NonDecreasing

\* C7: a finished iteration has produced min(limit, m) results, m the number
\* of indexed objects within the range; no indexed object left out is closer
\* to q than the last result; with the limit unbounded the results are exactly
\* the indexed objects within the range
QueryExact ==
    Finished =>
        /\ Len(yielded) = IF it.query.limit <= Cardinality(InRange)
                          THEN it.query.limit ELSE Cardinality(InRange)
        /\ yielded # << >> =>
               \A x \in indexed \ YieldedData :
                   distance_function(it.query.data, x) >= yielded[Len(yielded)].distance
        /\ it.query.limit = UnsignedMax => YieldedData = InRange

\* C8: remove(data) returns true exactly when data was indexed
RemoveReturnsPresence ==
    last.op = "remove" => root \notin {SIGSEGV, Uncaught} /\ last.ret = last.was

\* C9: a remove of an object that is not indexed returns false and leaves the
\* tree as it was
AbsentRemoveUnchanged ==
    [][(nops' = nops + 1 /\ last'.op = "remove" /\ last'.data \notin indexed)
          => (last'.ret = FALSE /\ root' = root)]_vars

\* an absent object has been looked for in a tree two levels deep
AbsentRemoveWitness ==
    /\ last.op = "remove"
    /\ ~last.was
    /\ last.ret = FALSE
    /\ root \notin {NULL, SIGSEGV}
    /\ root.kind = "RootNode"

EmptyTreeBoundary ==
    [][root = NULL =>
         /\ (nops' = nops + 1 /\ last'.op = "remove") =>
                (last'.ret = FALSE /\ root' = NULL)
         /\ (it = NoIterator /\ it' # NoIterator) =>
                (it'.isEnd /\ yielded' = << >>)]_vars

\* a query has been begun on a tree that is empty after three operations
EmptyTreeWitness ==
    /\ root = NULL
    /\ indexed = {}
    /\ nops >= 3
    /\ last.op = "begin"
    /\ it # NoIterator
    /\ it.isEnd

DescendantData(node) == { n.data : n \in NodesOf(node) \ {node} }

\* C13: the routing object of every node is a member of the node's subtree, as
\* the routing object of a descendant node or as a leaf entry
RoutingObjectMember ==
    \A node \in AllNodes : node.data \in EntriesOf(node) \cup DescendantData(node)

\* C13, as long as no remove has been called: the routing object of every node
\* is a member of the node's subtree, as the routing object of a descendant
\* node or as a leaf entry
RoutingObjectMemberAdding ==
    trip = "adding" => RoutingObjectMember

\* only adds have been made, the root has split and a leaf below the new root
\* has split again
RoutingObjectMemberWitness ==
    /\ trip = "adding"
    /\ root # NULL
    /\ root.kind = "RootNode"
    /\ Cardinality(DOMAIN root.children) >= 3

ConstructorDefault ==
    last.op = "new" =>
        /\ minNodeCapacity = last.min_node_capacity
        /\ maxNodeCapacity = IF last.max_node_capacity = -1
                             THEN 2 * last.min_node_capacity - 1
                             ELSE last.max_node_capacity
        /\ root = NULL

\* a tree has been constructed with the sentinel
ConstructorDefaultWitness ==
    /\ last.op = "new"
    /\ last.max_node_capacity = -1
    /\ maxNodeCapacity = 2 * minNodeCapacity - 1
    /\ root = NULL

\* C16: the split function returns two different objects of S and two disjoint
\* sets whose union is S, the first promoted object in the first set and the
\* second in the second, whichever pair the promotion picks
SplitContract ==
    last.op = "split" =>
        /\ last.promoted[1] \in last.S
        /\ last.promoted[2] \in last.S
        /\ last.promoted[1] # last.promoted[2]
        /\ last.promoted[1] \in last.first
        /\ last.promoted[2] \in last.second
        /\ last.first \cup last.second = last.S
        /\ last.first \cap last.second = {}

\* the whole of Data has been split around two objects that are neither the
\* least nor the greatest
SplitContractWitness ==
    /\ last.op = "split"
    /\ last.S = Data
    /\ \A k \in {1, 2} : \E x, y \in Data : x < last.promoted[k] /\ last.promoted[k] < y

\* C17: the first partition of balanced_partition has ceil(|S| / 2) objects
\* and the second floor(|S| / 2), for every set S and every promoted pair
PartitionSizes ==
    last.op = "partition" =>
        /\ Cardinality(last.first) = (Cardinality(last.S) + 1) \div 2
        /\ Cardinality(last.second) = Cardinality(last.S) \div 2

\* a set of odd size, three objects or more, has been partitioned around two
\* of its objects, some object being as far from the one as from the other
PartitionSizesWitness ==
    /\ last.op = "partition"
    /\ Cardinality(last.S) >= 3
    /\ Cardinality(last.S) % 2 = 1
    /\ last.promoted[1] \in last.S
    /\ last.promoted[2] \in last.S
    /\ last.promoted[1] # last.promoted[2]
    /\ \E x \in last.S : distance_function(x, last.promoted[1])
                            = distance_function(x, last.promoted[2])

\* the data indexed below the root
Indexed(r) == IF r \in {NULL, SIGSEGV, Uncaught} THEN {} ELSE EntriesOf(r)

\* Node::_check: every child is filed under its own routing object
KeysAreData(r) ==
    \A node \in NodesOf(r) :
        \A key \in DOMAIN node.children : node.children[key].data = key

Nearest(S, data) ==
    { s \in S : \A t \in S : distance_function(s, data) <= distance_function(t, data) }

\* the donation seen from outside: parent is still there with all its
\* children, theChild has lost data and received one child of the nearest
\* donor, the one nearest to theChild.data, and nothing else has changed
Donated(parent, key, data, r) ==
    \E after \in NodesOf(r) :
        /\ after.kind = parent.kind
        /\ after.data = parent.data
        /\ DOMAIN after.children = DOMAIN parent.children
        /\ \E d \in Nearest(Donors(parent, key), key) :
             \E g \in Nearest(DOMAIN parent.children[d].children, key) :
               /\ DOMAIN after.children[key].children
                     = (DOMAIN parent.children[key].children \ {data}) \cup {g}
               /\ DOMAIN after.children[d].children
                     = DOMAIN parent.children[d].children \ {g}
               /\ \A s \in Siblings(parent, key) \ {d} :
                     after.children[s] = parent.children[s]

\* the merge seen from outside: the nearest sibling has received what
\* theChild still held and parent has lost theChild and nothing else; a root
\* left with that sibling alone has been replaced by a root-leaf holding the
\* sibling's children
Merged(parent, key, data, r) ==
    \E m \in Nearest(Siblings(parent, key), key) :
        LET merged == DOMAIN parent.children[m].children
                          \cup (DOMAIN parent.children[key].children \ {data})
        IN  IF Cardinality(DOMAIN parent.children) - 1 >= getMinCapacity(parent)
            THEN \E after \in NodesOf(r) :
                     /\ after.kind = parent.kind
                     /\ after.data = parent.data
                     /\ DOMAIN after.children = DOMAIN parent.children \ {key}
                     /\ DOMAIN after.children[m].children = merged
                     /\ \A s \in Siblings(parent, key) \ {m} :
                           after.children[s] = parent.children[s]
            ELSE parent.kind = "RootNode" =>
                     /\ r.kind = "RootLeafNode"
                     /\ r.data = m
                     /\ DOMAIN r.children = merged

IsRootSplit(before, data, after) ==
    /\ after.kind = "RootNode"
    /\ after.data = before.data
    /\ after.distanceToParent = -1
    /\ Cardinality(DOMAIN after.children) = 2
    /\ \A child \in ChildrenOf(after) :
           child.kind = IF before.kind = "RootLeafNode" THEN "LeafNode"
                        ELSE "InternalNode"
    /\ before.kind = "RootLeafNode" =>
           UNION { DOMAIN child.children : child \in ChildrenOf(after) }
               = DOMAIN before.children \cup {data}
    /\ Heights(after) = { h + 1 : h \in Heights(before) }

\* C20: an add to a tree that is not empty either splits the root, and then
\* the new root is a RootNode with the old root's routing object, the two
\* replacement nodes as its only children and no distance to a parent, and the
\* tree is one level higher; or it leaves the height as it was. A root-leaf
\* splits exactly when it is full, a root with room for one more child never
RootSplit ==
    [][(nops' = nops + 1 /\ last'.op = "add" /\ root # NULL) =>
          /\ \/ IsRootSplit(root, last'.data, root')
             \/ /\ Heights(root') = Heights(root)
                /\ root'.kind = root.kind
                /\ root'.data = root.data
          /\ root.kind = "RootLeafNode" =>
                (IsRootSplit(root, last'.data, root')
                    <=> Cardinality(DOMAIN root.children) >= maxNodeCapacity)
          /\ (/\ root.kind = "RootNode"
              /\ Cardinality(DOMAIN root.children) < maxNodeCapacity) =>
                Heights(root') = Heights(root)]_vars

\* the replayed add of 2 has split a leaf and then the root, an internal node
\* with routing object 10: the new root keeps 10 and has the two replacement
\* nodes 7 and 8, the promoted objects, as its children
RootSplitWitness ==
    /\ script # << >>
    /\ last.op = "add"
    /\ last.data = 2
    /\ root.kind = "RootNode"
    /\ root.data = 10
    /\ root.distanceToParent = -1
    /\ DOMAIN root.children = {7, 8}
    /\ \A child \in ChildrenOf(root) : child.kind = "InternalNode"
    /\ Heights(root) = {3}

\* the root after a remove that has collapsed the root before it: built around
\* the routing object of one child of the old root, a RootNode if that child
\* was internal and a root-leaf if it was a leaf, one level lower, its children
\* taken from the grandchildren of the old root with their distances to the
\* new routing object, and no indexed object lost but data
Collapsed(before, data, after) ==
    /\ after # NULL
    /\ \E m \in DOMAIN before.children :
         /\ after.data = m
         /\ after.kind = IF before.children[m].kind = "InternalNode" THEN "RootNode"
                         ELSE "RootLeafNode"
    /\ after.distanceToParent = -1
    /\ Heights(after) = { h - 1 : h \in Heights(before) }
    /\ DOMAIN after.children
           \subseteq UNION { DOMAIN child.children : child \in ChildrenOf(before) }
    /\ \A grandchild \in ChildrenOf(after) :
           grandchild.distanceToParent = distance_function(grandchild.data, after.data)
    /\ Indexed(after) = Indexed(before) \ {data}

\* the root after a remove that has kept the root before it
RootKept(before, after) ==
    /\ after # NULL
    /\ after.kind = before.kind
    /\ after.data = before.data
    /\ Heights(after) = Heights(before)

\* C21: a successful remove empties the root exactly when the root is a leaf
\* holding the removed object alone; it leaves an internal root either in
\* place, with two children or more, or replaced by a root built from its
\* sole remaining child; an internal root with three children or more stays,
\* one with two leaves that have to be merged is replaced
RootCollapse ==
    [][(/\ nops' = nops + 1
        /\ last'.op = "remove"
        /\ root' \notin {SIGSEGV, Uncaught}
        /\ last'.ret = TRUE) =>
          /\ root.kind = "RootLeafNode" =>
                IF DOMAIN root.children = {last'.data} THEN root' = NULL
                ELSE /\ RootKept(root, root')
                     /\ DOMAIN root'.children = DOMAIN root.children \ {last'.data}
          /\ root.kind = "RootNode" =>
                /\ \/ /\ RootKept(root, root')
                      /\ Cardinality(DOMAIN root'.children) >= 2
                   \/ Collapsed(root, last'.data, root')
                /\ Cardinality(DOMAIN root.children) >= 3 => RootKept(root, root')
                /\ (/\ Cardinality(DOMAIN root.children) = 2
                    /\ \A child \in ChildrenOf(root) : child.kind = "LeafNode"
                    /\ last'.rebalance = "merge") =>
                       Collapsed(root, last'.data, root')]_vars

\* the tree of three levels has been taken down to two: its internal root has
\* been replaced by a RootNode built from the internal node it was left with
RootCollapseWitness ==
    /\ script # << >>
    /\ nops = Len(script) + 2
    /\ last.op = "remove"
    /\ root \notin {NULL, SIGSEGV, Uncaught}
    /\ last.ret = TRUE
    /\ root.kind = "RootNode"
    /\ Heights(root) = {2}

\* the children doAddData may descend into: the covering children nearest to
\* data or, when no child covers data, those whose radius has to grow least
Preferred(node, data) ==
    IF Covering(node, data) # {}
    THEN { key \in Covering(node, data) :
             \A other \in Covering(node, data) :
                 distance_function(key, data) <= distance_function(other, data) }
    ELSE { key \in DOMAIN node.children :
             \A other \in DOMAIN node.children :
                 distance_function(key, data) - node.children[key].radius
                     <= distance_function(other, data) - node.children[other].radius }

\* the children of before that are not the same in after
Changed(before, after) ==
    { key \in DOMAIN before.children :
        \/ key \notin DOMAIN after.children
        \/ after.children[key] # before.children[key] }

\* C22: an add that keeps the internal root changes a child of the root that
\* doAddData may descend into: a covering child nearest to the object or, when
\* no child covers it, a child whose radius has to grow least; when a single
\* child has changed, it is such a child, and the object is then under a
\* changed child or under a child that a split has made
DescentChoice ==
    [][(/\ nops' = nops + 1
        /\ last'.op = "add"
        /\ root # NULL
        /\ root.kind = "RootNode"
        /\ RootKept(root, root')) =>
          /\ Changed(root, root') \cap Preferred(root, last'.data) # {}
          /\ Cardinality(Changed(root, root')) = 1 =>
                Changed(root, root') \subseteq Preferred(root, last'.data)
          /\ \A key \in DOMAIN root'.children :
                last'.data \in Indexed(root'.children[key]) =>
                    key \in Changed(root, root') \/ key \notin DOMAIN root.children]_vars

\* an object that no child of the internal root covered has been added
DescentChoiceWitness ==
    /\ last.op = "add"
    /\ last.descent = "grow"
    /\ root.kind = "RootNode"
    /\ Cardinality(DOMAIN root.children) >= 3

\* the smallest minDistance in the pending queue, Infinity when it is empty
PendingMin(i) ==
    IF i.pendingQueue = << >> THEN Infinity
    ELSE CHOOSE m \in { i.pendingQueue[n].minDistance : n \in DOMAIN i.pendingQueue } :
             \A n \in DOMAIN i.pendingQueue : m <= i.pendingQueue[n].minDistance

\* C23: while an iteration has not ended, nextPendingMinDistance is the
\* smallest minDistance in the pending queue (Infinity when it is empty), every
\* object in the tree within the range that has not been yielded and is not in
\* the nearest queue is under a node of the pending queue and at
\* nextPendingMinDistance or more from the query point, and the result just
\* yielded was not farther than nextPendingMinDistance nor than what the
\* nearest queue still holds
QueryFrontier ==
    (it # NoIterator /\ ~it.isEnd) =>
        /\ it.nextPendingMinDistance = PendingMin(it)
        /\ \A data \in Indexed(root) :
              (/\ distance_function(it.query.data, data) <= it.query.range
               /\ \A n \in DOMAIN yielded : yielded[n].data # data
               /\ \A n \in DOMAIN it.nearestQueue : it.nearestQueue[n].item.data # data) =>
                  /\ \E n \in DOMAIN it.pendingQueue :
                        data \in Indexed(it.pendingQueue[n].item)
                  /\ distance_function(it.query.data, data) >= it.nextPendingMinDistance
        /\ it.currentResultItem.distance <= it.nextPendingMinDistance
        /\ \A n \in DOMAIN it.nearestQueue :
              it.currentResultItem.distance <= it.nearestQueue[n].distance

\* the nodes an add of data has kept, each paired with what it has become: the
\* node itself and, below an internal node, the child doAddData descends into
\* when addData has left it in place
RECURSIVE AddKept(_, _, _)
AddKept(before, after, data) ==
    { << before, after >> } \cup
    IF IsLeafKind(before) THEN {}
    ELSE LET none == [node |-> -1, distance |-> -1, metric |-> Infinity]
             chosen == ChooseChild(before, KeySeq(DOMAIN before.children), data,
                                   none, none)
         IN  IF /\ chosen.node \in DOMAIN after.children
                /\ \E r \in addData(before.children[chosen.node], data, chosen.distance) :
                      ~r.split /\ r.node = after.children[chosen.node]
             THEN AddKept(before.children[chosen.node], after.children[chosen.node], data)
             ELSE {}

\* the nodes a remove has kept, each paired with what it has become: a remove
\* makes no node below a node that has received no child
RECURSIVE RemoveKept(_, _)
RemoveKept(before, after) ==
    { << before, after >> } \cup
    IF IsLeafKind(before) THEN {}
    ELSE UNION { IF DOMAIN after.children[key].children
                        \subseteq DOMAIN before.children[key].children
                 THEN RemoveKept(before.children[key], after.children[key])
                 ELSE { << before.children[key], after.children[key] >> } :
                 key \in DOMAIN before.children \cap DOMAIN after.children }

\* C24: an add or a remove that keeps the root leaves every node it has kept
\* with a radius not smaller than before the call: the root, the nodes the add
\* has descended through, and under a remove the nodes that stay where they
\* were, those that lost an entry or gave a grandchild away included
RadiusMonotone ==
    [][(/\ nops' = nops + 1
        /\ root \notin {NULL, SIGSEGV, Uncaught}
        /\ root' \notin {NULL, SIGSEGV, Uncaught}
        /\ RootKept(root, root')) =>
          \A pair \in (IF last'.op = "add" THEN AddKept(root, root', last'.data)
                       ELSE RemoveKept(root, root')) :
              pair[2].radius >= pair[1].radius]_vars

\* a remove has taken a grandchild from a sibling, and a node of the tree
\* keeps a radius greater than any of its children needs
RadiusMonotoneWitness ==
    /\ last.op = "remove"
    /\ root \notin {NULL, SIGSEGV, Uncaught}
    /\ last.ret = TRUE
    /\ last.rebalance = "donate"
    /\ \E node \in NodesOf(root) :
          /\ node.kind = "LeafNode"
          /\ \A key \in DOMAIN node.children :
                node.children[key].distanceToParent + node.children[key].radius
                    < node.radius

\* the number of leaves below node that hold data
RECURSIVE Holders(_, _), HoldersBelow(_, _, _)
Holders(node, data) ==
    IF IsLeafKind(node) THEN (IF data \in DOMAIN node.children THEN 1 ELSE 0)
    ELSE HoldersBelow(node, KeySeq(DOMAIN node.children), data)

HoldersBelow(node, keys, data) ==
    IF keys = << >> THEN 0
    ELSE Holders(node.children[Head(keys)], data) + HoldersBelow(node, Tail(keys), data)

\* C25: the tree starts without entry; an add of an object that is not in it
\* puts that object in and nothing else, a remove that returns true takes its
\* object out and nothing else, a remove that returns false leaves the entries
\* as they are; after each call every object of the tree is held by exactly one
\* leaf, and no object added and never passed to remove is missing
ObjectConservation ==
    [][(nops' = nops + 1 /\ root' \notin {SIGSEGV, Uncaught}) =>
          /\ nops = 0 => Indexed(root) = {}
          /\ last'.op = "add" => Indexed(root') = Indexed(root) \cup {last'.data}
          /\ (last'.op = "remove" /\ last'.ret) =>
                /\ last'.data \in Indexed(root)
                /\ Indexed(root') = Indexed(root) \ {last'.data}
          /\ (last'.op = "remove" /\ ~last'.ret) => Indexed(root') = Indexed(root)
          /\ indexed' \subseteq Indexed(root')
          /\ \A data \in Indexed(root') : Holders(root', data) = 1]_vars

\* the run has been replayed, with its splits, its root splits and its
\* transfers between nodes of the same routing object, and an object has then
\* been removed from the 22 it left
ObjectConservationWitness ==
    /\ script # << >>
    /\ nops = Len(script) + 1
    /\ last.op = "remove"
    /\ root \notin {NULL, SIGSEGV, Uncaught}
    /\ last.ret = TRUE
    /\ Cardinality(Indexed(root)) = Cardinality(indexed)
    /\ Cardinality(indexed) > 20

\* C26: in a tree built with max_node_capacity = 2 * min_node_capacity - 1,
\* every node a call has made or changed (the two nodes of a split, the node
\* that received the children of a merged sibling and the node that received
\* a donated grandchild among them, with or without a child of the same
\* routing object already there) holds no more than max_node_capacity children
\* and, below the root, no fewer than min_node_capacity
CapacityDefault ==
    [][(/\ nops' = nops + 1
        /\ maxNodeCapacity = 2 * minNodeCapacity - 1
        /\ root' \notin {NULL, SIGSEGV, Uncaught}) =>
          \A N \in NodesOf(root') \ (IF root = NULL THEN {} ELSE NodesOf(root)) :
              /\ Cardinality(DOMAIN N.children) <= maxNodeCapacity
              /\ N.kind \in {"InternalNode", "LeafNode"} =>
                    Cardinality(DOMAIN N.children) >= minNodeCapacity]_vars

\* the replayed remove of 2 has left the internal node 7 with the leaf 7 alone
\* (its leaf 5 merged into it); the root has given it the leaf 7 of the
\* internal node 8, which went into the leaf it had, and that leaf has split:
\* the node that received the donation holds its minimum
CapacityDefaultWitness ==
    /\ script = DonateDuplicate
    /\ nops = Len(script)
    /\ last.op = "remove"
    /\ last.data = 2
    /\ DOMAIN root.children = {7, 8}
    /\ DOMAIN root.children[7].children = {5, 6}
    /\ DOMAIN root.children[8].children = {0, 4}
    /\ Cardinality(DOMAIN root.children[7].children) = minNodeCapacity

\* the calls a replayed run can make next: its next call or, after the last,
\* the removes that follow
Callable ==
    IF nops < Len(script) THEN { script[nops + 1] }
    ELSE IF nops = Len(script) THEN { Call("remove", data, {}) : data \in ReplayRemoved }
    ELSE {}

CachedDistanceOnce ==
    [][last'.op = "distance" =>
          LET asked == {<< last'.data1, last'.data2 >>, << last'.data2, last'.data1 >>}
          IN  /\ last'.ret = distance_function(last'.data1, last'.data2)
              /\ last'.evaluated <=> asked \cap DOMAIN last.cache = {}
              /\ ~last'.evaluated =>
                    /\ last'.cache = last.cache
                    /\ \A pair \in asked \cap DOMAIN last.cache :
                          last'.ret = last.cache[pair]
              /\ asked \subseteq DOMAIN last'.cache
              /\ \A pair \in DOMAIN last'.evaluations :
                    /\ last'.evaluations[pair] = 1
                    /\ pair[1] # pair[2] =>
                          << pair[2], pair[1] >> \notin DOMAIN last'.evaluations]_vars

\* a pair has been asked for in the order opposite to the one the wrapped
\* function was called with, and the call has not called it again
CachedDistanceOnceWitness ==
    /\ last.op = "distance"
    /\ last.data1 # last.data2
    /\ ~last.evaluated
    /\ << last.data2, last.data1 >> \in DOMAIN last.evaluations
    /\ last.ret = distance_function(last.data2, last.data1)

====
